---- MODULE Spec2Model ----
(***************************************************************************)
(* A model of converters/latex.py: ConverterLaTeX, the notebook-to-LaTeX   *)
(* renderer.  Every render method is a function of the node it is given    *)
(* and of the class configuration; the only interactions with the outside  *)
(* are the preamble reads of convert() and the inkscape call of            *)
(* _svg_lines().  The model keeps the configuration, the call made on the  *)
(* converter (operation, argument, behaviour of the outside), whether it   *)
(* has returned, its outcome, and the log of the files opened and the      *)
(* processes spawned while it ran.                                         *)
(*                                                                         *)
(* Python values.  A text whose characters matter (a latex or text         *)
(* representation, a path) is a sequence of atoms: "$", "/", ".", " " are  *)
(* the characters themselves, any other atom is a run of characters none   *)
(* of which is one of those.  Str joins the atoms into one string.  A      *)
(* value whose run-time type the code inspects is tagged with it           *)
(* (PyStr, PyList, PyNone).  A call either returns a value or raises.      *)
(***************************************************************************)
EXTENDS Integers, Sequences, FiniteSets, TLC

\* Most "$" characters at either end of a latex representation.
MaxDollars == 3
\* Most output records of a code cell.
MaxOutputs == 2

VARIABLES exclude_cells, with_preamble, user_preamble, inkscape, infile_dir,
          call, pc, ret, opened, spawned

config == <<exclude_cells, with_preamble, user_preamble, inkscape, infile_dir>>
vars == <<exclude_cells, with_preamble, user_preamble, inkscape, infile_dir,
          call, pc, ret, opened, spawned>>

----------------------------------------------------------------------------
\* Python values and outcomes

PyNone == [t |-> "NoneType"]
PyStr(s) == [t |-> "str", v |-> s]
PyList(l) == [t |-> "list", v |-> l]

\* bool(x) is False
Falsy(x) == x.t = "NoneType" \/ (x.t = "str" /\ x.v = "") \/ (x.t = "list" /\ x.v = <<>>)

Return(v) == [kind |-> "return", val |-> v]
Raise(e) == [kind |-> "raise", exc |-> e]

RECURSIVE Str(_)
Str(s) == IF s = <<>> THEN "" ELSE Head(s) \o Str(Tail(s))

Chars(s) == {s[i] : i \in DOMAIN s}

\* Faulty variant of lstrip: removes the prefix `chars` once, as a delimiter.
lstrip_prefix(s, chars) ==
    IF Len(s) >= Len(chars) /\ SubSeq(s, 1, Len(chars)) = chars
    THEN SubSeq(s, Len(chars) + 1, Len(s))
    ELSE s

\* str.lstrip(chars): drops every leading character that occurs in chars
RECURSIVE lstrip(_, _)
lstrip(s, chars) ==
    IF s /= <<>> /\ Head(s) \in Chars(chars) THEN lstrip(Tail(s), chars) ELSE s

\* str.rstrip(chars): drops every trailing character that occurs in chars
RECURSIVE rstrip(_, _)
rstrip(s, chars) ==
    IF s /= <<>> /\ s[Len(s)] \in Chars(chars)
    THEN rstrip(SubSeq(s, 1, Len(s) - 1), chars)
    ELSE s

----------------------------------------------------------------------------
\* os.path, on absolute normalised paths

\* The last index of atom c in p, 0 when there is none (str.rfind, 1-based).
rfind(p, c) ==
    LET at == {i \in DOMAIN p : p[i] = c}
    IN  IF at = {} THEN 0 ELSE CHOOSE i \in at : \A j \in at : j <= i

\* os.path.splitext: <<root, ext>>; the dots a file name starts with belong
\* to the root.
splitext(p) ==
    LET sepIndex == rfind(p, "/")
        dotIndex == rfind(p, ".")
    IN  IF dotIndex > sepIndex
           /\ \E k \in (sepIndex + 1)..(dotIndex - 1) : p[k] /= "."
        THEN <<SubSeq(p, 1, dotIndex - 1), SubSeq(p, dotIndex, Len(p))>>
        ELSE <<p, <<>>>>

\* p.split("/") without its empty components
RECURSIVE SplitPath(_)
SplitPath(p) ==
    IF p = <<>> THEN <<>>
    ELSE IF Head(p) = "/" THEN SplitPath(Tail(p))
    ELSE LET stop == IF \E i \in DOMAIN p : p[i] = "/"
                     THEN CHOOSE i \in DOMAIN p :
                              p[i] = "/" /\ \A j \in 1..(i - 1) : p[j] /= "/"
                     ELSE Len(p) + 1
         IN  <<SubSeq(p, 1, stop - 1)>> \o SplitPath(SubSeq(p, stop, Len(p)))

\* "/".join(parts)
RECURSIVE JoinPath(_)
JoinPath(parts) ==
    IF parts = <<>> THEN <<>>
    ELSE IF Len(parts) = 1 THEN parts[1]
    ELSE parts[1] \o <<"/">> \o JoinPath(Tail(parts))

\* len(os.path.commonprefix([a, b])) of two lists of components
RECURSIVE CommonLen(_, _)
CommonLen(a, b) ==
    IF a /= <<>> /\ b /= <<>> /\ Head(a) = Head(b)
    THEN 1 + CommonLen(Tail(a), Tail(b))
    ELSE 0

\* os.path.relpath(path, start)
relpath(path, start) ==
    LET start_list == SplitPath(start)
        path_list == SplitPath(path)
        i == CommonLen(start_list, path_list)
        rel_list == [k \in 1..(Len(start_list) - i) |-> <<".", ".">>]
                    \o SubSeq(path_list, i + 1, Len(path_list))
    IN  IF rel_list = <<>> THEN <<".">> ELSE JoinPath(rel_list)

----------------------------------------------------------------------------
\* Class configuration

equation_env == "equation*"
documentclass == "article"
documentclass_options == "11pt,english"
\* Faulty variant of display_data_priority: text before the bitmap formats.
display_data_priority_text_early == <<"latex", "pdf", "svg", "text", "png", "jpg">>

display_data_priority == <<"latex", "pdf", "svg", "png", "jpg", "text">>

heading_map ==
    [l \in 1..6 |->
        CASE l = 1 -> "\\section"
          [] l = 2 -> "\\subsection"
          [] l = 3 -> "\\subsubsection"
          [] l = 4 -> "\\paragraph"
          [] l = 5 -> "\\subparagraph"
          [] l = 6 -> "\\subparagraph"]

----------------------------------------------------------------------------
\* Pure renderers

in_env(environment, lines) ==
    LET out == <<"\\begin{" \o environment \o "}">>
        end == <<"\\end{" \o environment \o "}">>
    IN  IF lines.t = "str" THEN Return(out \o <<lines.v>> \o end)
        ELSE IF lines.t = "list" THEN Return(out \o lines.v \o end)
        ELSE Raise("TypeError")

\* Faulty variant of render_heading: an unknown level renders nothing (dict.get).
render_heading_silent(cell) ==
    IF cell.level \in DOMAIN heading_map
    THEN Return(<<heading_map[cell.level] \o "{" \o cell.source \o "}">>)
    ELSE Return(<<>>)

render_heading(cell) ==
    IF cell.level \in DOMAIN heading_map
    THEN Return(<<heading_map[cell.level] \o "{" \o cell.source \o "}">>)
    ELSE Raise("KeyError")

\* Faulty variant of render_pyout: the text representation is tried first.
render_pyout_text_first(output) ==
    IF "text" \in DOMAIN output
    THEN in_env("verbatim", PyStr(Str(output.text)))
    ELSE IF "latex" \in DOMAIN output
    THEN in_env(equation_env,
                PyStr(Str(rstrip(lstrip(output.latex, <<"$", "$">>), <<"$", "$">>))))
    ELSE Return(<<>>)

render_pyout(output) ==
    IF "latex" \in DOMAIN output
    THEN in_env(equation_env,
                PyStr(Str(rstrip(lstrip(output.latex, <<"$", "$">>), <<"$", "$">>))))
    ELSE IF "text" \in DOMAIN output
    THEN in_env("verbatim", PyStr(Str(output.text)))
    ELSE Return(<<>>)

render_display_format_latex(output) ==
    in_env(equation_env,
           PyStr(Str(rstrip(lstrip(output.latex, <<"$", "$">>), <<"$", "$">>))))

_unknown_lines(data) ==
    LET env == in_env("verbatim", data)
    IN  IF env.kind = "raise" THEN env
        ELSE Return(<<"{\\vspace{5mm}\\bf WARNING:: unknown cell:}">> \o env.val)

----------------------------------------------------------------------------
\* Image renderers.  A renderer that may spawn a process yields its outcome
\* and the log of the calls it made: [ret, spawned].

Pure(r) == [ret |-> r, spawned |-> <<>>]

_img_lines(img_file) ==
    LET rel_img_position == relpath(img_file, infile_dir)
    IN  in_env("center",
               PyList(<<"\\includegraphics[width=0.7\\textwidth]{"
                           \o Str(rel_img_position) \o "}",
                        "\\par">>))

\* subprocess.check_call(argv) when the tool behaves as `run` says: the
\* executable must be a string (os.execvp fails on None), must exist, and
\* must exit 0.
\* Faulty variant of check_call: subprocess.call, which returns the exit code.
call_unchecked(argv, run) ==
    IF argv[1].t /= "str" THEN Raise("AttributeError")
    ELSE IF ~run.found THEN Raise("OSError")
    ELSE Return(run.rc)

check_call(argv, run) ==
    IF argv[1].t /= "str" THEN Raise("AttributeError")
    ELSE IF ~run.found THEN Raise("OSError")
    ELSE IF run.rc /= 0 THEN Raise("CalledProcessError")
    ELSE Return(0)

_svg_lines(img_file, run) ==
    LET base_file == splitext(img_file)[1]
        pdf_file == base_file \o <<".", "pdf">>
        argv == <<inkscape, PyStr("--export-pdf=" \o Str(pdf_file)), PyStr(Str(img_file))>>
        done == check_call(argv, run)
    IN  [ret |-> IF done.kind = "raise" THEN done ELSE _img_lines(pdf_file),
         spawned |-> <<[argv |-> argv, run |-> run]>>]

----------------------------------------------------------------------------
\* Display formats and output records

\* str.strip()
strip(s) == rstrip(lstrip(s, <<" ", "\n", "\t">>), <<" ", "\n", "\t">>)

render_display_format_text(output) ==
    in_env("verbatim", PyStr(Str(strip(output.text))))

render_display_format_html(output) == Return(<<>>)

render_display_format_json(output) == Return(<<>>)

render_display_format_javascript(output) == Return(<<>>)

\* "\n".join(frames)
RECURSIVE JoinLines(_)
JoinLines(frames) ==
    IF frames = <<>> THEN <<>>
    ELSE IF Len(frames) = 1 THEN frames[1]
    ELSE frames[1] \o <<"\n">> \o JoinLines(Tail(frames))

\* utils.remove_ansi: the text without its escape sequences (each one atom)
AnsiCodes == {"ESC[0;31m", "ESC[0m"}
remove_ansi(s) == SelectSeq(s, LAMBDA a : a \notin AnsiCodes)

render_pyerr(output) ==
    in_env("traceback",
           PyList(in_env("verbatim",
                         PyStr(Str(remove_ansi(JoinLines(output.traceback))))).val))

\* pprint.pformat of a node of a kind the converter does not know
pformat(node) == "{u'output_type': u'" \o node.output_type \o "'}"

render_unknown_display(output) == _unknown_lines(PyStr(pformat(output)))

\* Converter._new_figure: the figure file written for a representation
_new_figure(fmt) ==
    infile_dir \o <<"/", "nb_files", "/", "nb_fig_00", ".", fmt>>

\* The first format of `priority` that the output offers, "" when none is.
RECURSIVE first_available(_, _)
first_available(priority, output) ==
    IF priority = <<>> THEN ""
    ELSE IF Head(priority) \in DOMAIN output THEN Head(priority)
    ELSE first_available(Tail(priority), output)

\* Converter.render_display_data: the format chosen for a DisplayData output
display_format(output) ==
    LET fmt == first_available(display_data_priority, output)
    IN  IF fmt /= "" THEN fmt
        ELSE CHOOSE k \in DOMAIN output : k /= "output_type"

dispatch_display_format(fmt, output) ==
    CASE fmt = "text" -> render_display_format_text(output)
      [] fmt = "html" -> render_display_format_html(output)
      [] fmt = "latex" -> render_display_format_latex(output)
      [] fmt = "json" -> render_display_format_json(output)
      [] fmt = "javascript" -> render_display_format_javascript(output)
      [] OTHER -> render_unknown_display(output)

render_display_data(output, run) ==
    LET fmt == display_format(output)
    IN  IF fmt = "svg" THEN _svg_lines(_new_figure(fmt), run)
        ELSE IF fmt \in {"png", "jpg", "pdf"} THEN Pure(_img_lines(_new_figure(fmt)))
        ELSE Pure(dispatch_display_format(fmt, output))

\* Converter.dispatch(output.output_type), applied to the output
render_output(output, run) ==
    CASE output.output_type = "pyout" -> Pure(render_pyout(output))
      [] output.output_type = "pyerr" -> Pure(render_pyerr(output))
      [] output.output_type = "display_data" -> render_display_data(output, run)
      [] OTHER -> Pure(render_unknown_display(output))

----------------------------------------------------------------------------
\* Code cells

\* The loop over cell.outputs: runs[i] is how the rasterizer behaves if the
\* i-th output needs it.  acc is [ret, spawned] so far; the first renderer
\* that raises ends the loop.
RECURSIVE render_outputs(_, _, _, _)
render_outputs(outputs, runs, i, acc) ==
    IF i > Len(outputs) THEN acc
    ELSE LET r == render_output(outputs[i], runs[i])
         IN  IF r.ret.kind = "raise"
             THEN [ret |-> r.ret, spawned |-> acc.spawned \o r.spawned]
             ELSE render_outputs(outputs, runs, i + 1,
                                 [ret |-> Return(acc.ret.val \o r.ret.val),
                                  spawned |-> acc.spawned \o r.spawned])

\* Faulty variant of codeoutput: the environment is emitted even when it is empty.
codeoutput_always(outlines) == in_env("codeoutput", PyList(outlines)).val

\* render_code, its last step: the frame around the lines of the outputs
codeoutput(outlines) ==
    IF outlines /= <<>> THEN in_env("codeoutput", PyList(outlines)).val ELSE <<>>

\* render_code, past its first test: the codecell of a cell that has input
codecell(cell, runs) ==
         LET lines ==
                 <<"\\begin{codecell}">>
                 \o (IF "source" \notin exclude_cells
                     THEN in_env("codeinput",
                                 PyList(in_env("lstlisting", cell.input).val)).val
                     ELSE in_env("codeinput", PyStr("")).val)
             outs == IF "output" \notin exclude_cells
                     THEN render_outputs(cell.outputs, runs, 1, Pure(Return(<<>>)))
                     ELSE Pure(Return(<<>>))
         IN  IF outs.ret.kind = "raise" THEN outs
             ELSE LET outlines == outs.ret.val
                  IN  [ret |-> Return(lines \o codeoutput(outlines)
                                      \o <<"\\end{codecell}">>),
                       spawned |-> outs.spawned]

\* Faulty variant of render_code: only a missing input is skipped, not an empty one.
render_code_none_only(cell, runs) ==
    IF cell.input.t = "NoneType" THEN Pure(Return(<<>>)) ELSE codecell(cell, runs)

render_code(cell, runs) ==
    IF Falsy(cell.input) THEN Pure(Return(<<>>)) ELSE codecell(cell, runs)

----------------------------------------------------------------------------
\* Whole documents

\* "\n".join(final)
RECURSIVE Join(_)
Join(final) ==
    IF final = <<>> THEN ""
    ELSE IF Len(final) = 1 THEN final[1]
    ELSE final[1] \o "\n" \o Join(Tail(final))

\* The notebook file the converter was made for
infile == Str(infile_dir) \o "/nb.ipynb"

\* The preamble stored next to the module
preamble == "<converters>/../preamble.tex"

\* Faulty variant of read_file: a file that cannot be read counts as empty.
read_file_or_empty(path, files) ==
    IF path \in files.readable THEN Return(files.contents[path]) ELSE Return("")

\* open(path).read() when the files of files.readable can be read and hold
\* files.contents
read_file(path, files) ==
    IF path \in files.readable THEN Return(files.contents[path]) ELSE Raise("IOError")

\* convert(), with the preamble on: the standalone document around `body`.
\* Yields [ret, opened]: the outcome and the files it tried to open, in order.
standalone(body, files) ==
         LET final == <<"%% This file was auto-generated by IPython.",
                        "%% Conversion from the original notebook file:",
                        "%% " \o infile,
                        "%%",
                        "\\documentclass[" \o documentclass_options \o "]{"
                            \o documentclass \o "}",
                        "">>
             own == read_file(preamble, files)
         IN  IF own.kind = "raise" THEN [ret |-> own, opened |-> <<preamble>>]
             ELSE IF Falsy(user_preamble)
             THEN [ret |-> Return(Join(final \o <<own.val>>
                                       \o <<"\\begin{document}", "", body,
                                            "\\end{document}", "">>)),
                   opened |-> <<preamble>>]
             ELSE LET user == read_file(user_preamble.v, files)
                  IN  IF user.kind = "raise"
                      THEN [ret |-> user, opened |-> <<preamble, user_preamble.v>>]
                      ELSE [ret |-> Return(Join(final \o <<own.val>>
                                                \o <<"", "%% Adding user preamble from file:",
                                                     "%% " \o user_preamble.v, "">>
                                                \o <<user.val>>
                                                \o <<"\\begin{document}", "", body,
                                                     "\\end{document}", "">>)),
                            opened |-> <<preamble, user_preamble.v>>]

\* Faulty variant of convert: the preamble switch is ignored.
convert_always_standalone(body, files) == standalone(body, files)

\* convert(): `body` is what the parent class's convert() returned.
convert(body, files) ==
    IF ~with_preamble THEN [ret |-> Return(body), opened |-> <<>>]
    ELSE standalone(body, files)

----------------------------------------------------------------------------
\* Inputs

Levels == 0..7
Sources == {"", "Intro", "a{b}"}
HeadingCells == [level : Levels, source : Sources]

Dollars(n) == [i \in 1..n |-> "$"]
LatexCores == {<<>>, <<"x">>, <<"x", "$", "y">>}
LatexStrings ==
    {Dollars(i) \o m \o Dollars(j) : i \in 0..MaxDollars, j \in 0..MaxDollars,
                                     m \in LatexCores}
TextStrings == {<<>>, <<"4">>, <<" ", "4", "\n">>}

PyOuts ==
    {[output_type |-> "pyout"]}
    \cup {[output_type |-> "pyout", text |-> t] : t \in TextStrings}
    \cup {[output_type |-> "pyout", latex |-> l] : l \in LatexStrings}
    \cup {[output_type |-> "pyout", latex |-> l, text |-> <<"4">>] :
              l \in LatexStrings}

LatexOutputs ==
    {[output_type |-> "display_data", latex |-> l] : l \in LatexStrings}

\* What _unknown_lines can be handed: a string, a list of lines, or a value
\* that is neither a string nor iterable (None, a number).
UnknownData ==
    {PyStr(s) : s \in {"", "{u'cell_type': u'blob'}"}}
    \cup {PyList(l) : l \in {<<>>, <<"a", "b">>}}
    \cup {PyNone, [t |-> "int", v |-> 5]}

\* How the rasterizer behaves when it is run: not found, or its exit code.
ToolRuns == {[found |-> FALSE], [found |-> TRUE, rc |-> 0], [found |-> TRUE, rc |-> 1]}

SvgFiles ==
    {<<"/", "nb", "/", "sub", "/", "fig", ".", "svg">>,
     <<"/", "nb", "/", "sub", "/", "nb_files", "/", "fig", ".", "01", ".", "svg">>,
     <<"/", "nb", "/", "v1", ".", "2", "/", "fig", ".", "svg">>,
     <<"/", "tmp", "/", ".", "hidden", ".", "svg">>}

\* DisplayData outputs: every non-empty choice of representations
DisplayKeys == {"latex", "pdf", "svg", "png", "jpg", "text", "html"}
DisplayValue(k) ==
    CASE k = "output_type" -> "display_data"
      [] k = "latex" -> <<"$", "$", "x", "$", "$">>
      [] k = "text" -> <<" ", "<Figure>", "\n">>
      [] OTHER -> "<data>"
DisplayOutput(keys) == [k \in keys \cup {"output_type"} |-> DisplayValue(k)]
DisplayOutputs == {DisplayOutput(keys) : keys \in (SUBSET DisplayKeys) \ {{}}}

\* The outputs of a code cell: of each kind, one that renders to lines and
\* one that renders to nothing or may fail.
CodeOutputs ==
    {[output_type |-> "pyout", text |-> <<"4">>],
     [output_type |-> "pyout"],
     [output_type |-> "pyerr",
      traceback |-> <<<<"ESC[0;31m", "ZeroDivisionError", "ESC[0m">>, <<"1/0">>>>],
     DisplayOutput({"svg", "text"}),
     DisplayOutput({"html"}),
     [output_type |-> "blob"]}

CodeInputs == {PyNone, PyStr(""), PyStr("x = 1")}
CodeCells ==
    [input : CodeInputs,
     outputs : UNION {[1..n -> CodeOutputs] : n \in 0..MaxOutputs}]

\* The positions of a cell's outputs that offer an svg representation
SvgAt(outputs) == {i \in DOMAIN outputs : "svg" \in DOMAIN outputs[i]}
NoRun == [found |-> TRUE, rc |-> 0]
RunsFor(outputs) ==
    {[i \in DOMAIN outputs |-> IF i \in SvgAt(outputs) THEN f[i] ELSE NoRun] :
        f \in [SvgAt(outputs) -> ToolRuns]}

\* Bodies the traversal can hand to convert()
Bodies == {"", "\\section{Intro}\n\\begin{codecell}\n\\end{codecell}",
           "\\begin{document}"}

UserPreamblePath == "/home/u/my.tex"
PreambleFiles == {preamble, UserPreamblePath}
FileContents ==
    [f \in PreambleFiles |->
        IF f = preamble THEN "\\usepackage{graphicx}\n" ELSE "\\usepackage{amsmath}\n"]
FileSystems == [readable : SUBSET PreambleFiles, contents : {FileContents}]

----------------------------------------------------------------------------
\* The calls made on a converter.  `env` is how the outside behaves while the
\* call runs: the rasterizer's runs, or the files that can be read.

Call(name, a, e) == [op |-> name, arg |-> a, env |-> e]

HeadingCalls == {Call("render_heading", cell, PyNone) : cell \in HeadingCells}
PyoutCalls == {Call("render_pyout", output, PyNone) : output \in PyOuts}
LatexCalls ==
    {Call("render_display_format_latex", output, PyNone) : output \in LatexOutputs}
UnknownCalls == {Call("_unknown_lines", data, PyNone) : data \in UnknownData}
SvgCalls == {Call("_svg_lines", img_file, run) : img_file \in SvgFiles, run \in ToolRuns}
DisplayDataCalls ==
    UNION {{Call("render_display_data", output, run) :
               run \in IF "svg" \in DOMAIN output THEN ToolRuns ELSE {NoRun}} :
           output \in DisplayOutputs}
CodeCalls ==
    UNION {{Call("render_code", cell, runs) : runs \in RunsFor(cell.outputs)} :
           cell \in CodeCells}
ConvertCalls == {Call("convert", body, files) : body \in Bodies, files \in FileSystems}

Init ==
    /\ exclude_cells \in SUBSET {"source", "output"}
    /\ with_preamble \in BOOLEAN
    /\ user_preamble \in {PyNone, PyStr(UserPreamblePath)}
    /\ inkscape \in {PyNone, PyStr("inkscape")}
    /\ infile_dir \in {<<"/", "nb">>, <<"/", "nb", "/", "sub">>}
    /\ \/ call \in HeadingCalls
       \/ call \in PyoutCalls
       \/ call \in LatexCalls
       \/ call \in UnknownCalls
       \/ call \in SvgCalls
       \/ call \in DisplayDataCalls
       \/ call \in CodeCalls
       \/ call \in ConvertCalls
    /\ pc = "call"
    /\ ret = PyNone
    /\ opened = <<>>
    /\ spawned = <<>>

\* A renderer that touches nothing outside returns (or raises).
Returns(name, r) ==
    /\ pc = "call"
    /\ call.op = name
    /\ pc' = "done"
    /\ ret' = r
    /\ opened' = <<>>
    /\ spawned' = <<>>
    /\ UNCHANGED <<config, call>>

\* A renderer that may run the rasterizer returns (or raises).
Effect(name, r) ==
    /\ pc = "call"
    /\ call.op = name
    /\ pc' = "done"
    /\ ret' = r.ret
    /\ spawned' = r.spawned
    /\ opened' = <<>>
    /\ UNCHANGED <<config, call>>

RenderHeading == Returns("render_heading", render_heading(call.arg))

RenderPyout == Returns("render_pyout", render_pyout(call.arg))

RenderDisplayFormatLatex ==
    Returns("render_display_format_latex", render_display_format_latex(call.arg))

UnknownLines == Returns("_unknown_lines", _unknown_lines(call.arg))

SvgLines == Effect("_svg_lines", _svg_lines(call.arg, call.env))

RenderDisplayData ==
    Effect("render_display_data", render_display_data(call.arg, call.env))

RenderCode == Effect("render_code", render_code(call.arg, call.env))

Convert ==
    /\ pc = "call"
    /\ call.op = "convert"
    /\ LET r == convert(call.arg, call.env)
       IN  /\ ret' = r.ret
           /\ opened' = r.opened
    /\ pc' = "done"
    /\ spawned' = <<>>
    /\ UNCHANGED <<config, call>>

Next ==
    \/ RenderHeading
    \/ RenderPyout
    \/ RenderDisplayFormatLatex
    \/ UnknownLines
    \/ SvgLines
    \/ RenderDisplayData
    \/ RenderCode
    \/ Convert

Spec == Init /\ [][Next]_vars

----------------------------------------------------------------------------
\* Properties

Done(name) == pc = "done" /\ call.op = name

\* C1: a Code cell whose input is empty or absent renders to the empty
\* sequence, whatever its outputs and whatever is excluded; no output is
\* rendered for it, so the rasterizer is not run either.
C1_EmptyInputRendersNothing ==
    (Done("render_code") /\ call.arg.input \in {PyNone, PyStr("")})
        => (ret = Return(<<>>) /\ spawned = <<>>)

\* An empty input with two outputs, one of them an svg figure, nothing excluded.
C1_Witness ==
    /\ Done("render_code")
    /\ call.arg.input = PyStr("")
    /\ exclude_cells = {}
    /\ Len(call.arg.outputs) = MaxOutputs
    /\ \E i \in DOMAIN call.arg.outputs : "svg" \in DOMAIN call.arg.outputs[i]
    /\ ret = Return(<<>>)

\* The i-th output of the code cell of the call, rendered on its own
RenderedOutput(i) == render_output(call.arg.outputs[i], call.env[i]).ret

\* The lines of the first n outputs, in cell order
RECURSIVE RenderedOutputs(_)
RenderedOutputs(n) ==
    IF n = 0 THEN <<>> ELSE RenderedOutputs(n - 1) \o RenderedOutput(n).val

\* C2: for a Code cell with non-empty input, render_code raises only what
\* the renderer of one of its outputs raises (and none is rendered when
\* "output" is excluded); what it returns starts with \begin{codecell}, goes
\* on with the codeinput environment, ends with \end{codecell}, and holds a
\* codeoutput environment if and only if "output" is not excluded and the
\* rendered outputs, concatenated in cell order, are not empty; that
\* environment follows the codeinput environment and holds exactly those lines.
C2_CodeCellShape ==
    (Done("render_code") /\ call.arg.input \notin {PyNone, PyStr("")}) =>
        LET shown == "output" \notin exclude_cells
            n == Len(call.arg.outputs)
            inputEnd == IF "source" \in exclude_cells THEN 4 ELSE 6
        IN  /\ ret.kind = "return"
                <=> (~shown \/ \A i \in 1..n : RenderedOutput(i).kind = "return")
            /\ ret.kind = "return" =>
                LET L == ret.val
                    outs == IF shown THEN RenderedOutputs(n) ELSE <<>>
                IN  /\ Len(L) > inputEnd
                    /\ L[1] = "\\begin{codecell}"
                    /\ L[2] = "\\begin{codeinput}"
                    /\ L[inputEnd] = "\\end{codeinput}"
                    /\ L[Len(L)] = "\\end{codecell}"
                    /\ (\E i \in DOMAIN L : L[i] = "\\begin{codeoutput}") <=> outs /= <<>>
                    /\ outs = <<>> => Len(L) = inputEnd + 1
                    /\ outs /= <<>> =>
                        /\ L[inputEnd + 1] = "\\begin{codeoutput}"
                        /\ SubSeq(L, inputEnd + 2, Len(L) - 2) = outs
                        /\ L[Len(L) - 1] = "\\end{codeoutput}"

\* Two outputs, the first of which renders to nothing, in a codeoutput frame.
C2_Witness ==
    /\ Done("render_code")
    /\ call.arg.input = PyStr("x = 1")
    /\ exclude_cells = {}
    /\ Len(call.arg.outputs) = 2
    /\ call.arg.outputs[1] = [output_type |-> "pyout"]
    /\ call.arg.outputs[2].output_type = "pyerr"
    /\ ret.kind = "return"
    /\ ret.val[7] = "\\begin{codeoutput}"
    /\ Len(ret.val) = 14

\* C3: render_pyout takes one branch, the first that matches: with a latex
\* representation the result is the equation environment around it and
\* neither the text nor a verbatim environment appears, also when a text is
\* there; with a text only, the verbatim environment around the text; with
\* neither, the empty sequence.
C3_PyoutFirstMatch ==
    Done("render_pyout") =>
        LET o == call.arg
        IN  /\ ret.kind = "return"
            /\ "latex" \in DOMAIN o =>
                /\ Len(ret.val) = 3
                /\ ret.val[1] = "\\begin{equation*}"
                /\ ret.val[3] = "\\end{equation*}"
                /\ \A i \in 1..3 : ret.val[i] /= "\\begin{verbatim}"
                /\ "text" \in DOMAIN o => \A i \in 1..3 : ret.val[i] /= Str(o.text)
            /\ ("latex" \notin DOMAIN o /\ "text" \in DOMAIN o) =>
                ret.val = <<"\\begin{verbatim}", Str(o.text), "\\end{verbatim}">>
            /\ ("latex" \notin DOMAIN o /\ "text" \notin DOMAIN o) => ret.val = <<>>

\* A PyOut with both representations, rendered as an equation.
C3_Witness ==
    /\ Done("render_pyout")
    /\ {"latex", "text"} \subseteq DOMAIN call.arg
    /\ call.arg.latex = <<"$", "$", "x", "$", "$">>
    /\ ret = Return(<<"\\begin{equation*}", "x", "\\end{equation*}">>)

\* C4: for a level from 1 to 6 render_heading returns the one line
\* <command>{<source>}, the command being the heading map's entry for the
\* level; for any other level it raises and returns no sequence.
C4_HeadingLevels ==
    Done("render_heading") =>
        IF call.arg.level \in 1..6
        THEN ret = Return(<<heading_map[call.arg.level] \o "{" \o call.arg.source \o "}">>)
        ELSE ret.kind = "raise"

\* Level 7: the call raised.
C4_Witness ==
    /\ Done("render_heading")
    /\ call.arg.level = 7
    /\ ret.kind = "raise"

\* The priority order of the representations of a DisplayData output
PriorityOrder == <<"latex", "pdf", "svg", "png", "jpg", "text">>

\* The output with only its representation f left
Only(output, f) == [k \in {f, "output_type"} |-> output[k]]

\* What rendering representation f of the output of the call gives
RenderedAs(f) == render_display_data(Only(call.arg, f), call.env)

\* C5: a DisplayData output that offers a representation of the priority
\* order latex, pdf, svg, png, jpg, text is rendered as the first of them it
\* offers, and as none of the later ones it offers.
C5_DisplayDataPriority ==
    Done("render_display_data") =>
        LET offered == {i \in DOMAIN PriorityOrder : PriorityOrder[i] \in DOMAIN call.arg}
        IN  offered /= {} =>
                LET first == CHOOSE i \in offered : \A j \in offered : i <= j
                    outcome == [ret |-> ret, spawned |-> spawned]
                IN  /\ outcome = RenderedAs(PriorityOrder[first])
                    /\ \A j \in offered \ {first} : outcome /= RenderedAs(PriorityOrder[j])

\* An output with a png and a text, rendered as the image.
C5_Witness ==
    /\ Done("render_display_data")
    /\ DOMAIN call.arg = {"output_type", "png", "text"}
    /\ infile_dir = <<"/", "nb">>
    /\ ret = Return(<<"\\begin{center}",
                      "\\includegraphics[width=0.7\\textwidth]{nb_files/nb_fig_00.png}",
                      "\\par",
                      "\\end{center}">>)

HasDelimiters(l) ==
    /\ Len(l) >= 4
    /\ l[1] = "$" /\ l[2] = "$"
    /\ l[Len(l) - 1] = "$" /\ l[Len(l)] = "$"

\* What is between the delimiters
Inner(l) == SubSeq(l, 3, Len(l) - 2)

Bare(l) == l = <<>> \/ (l[1] /= "$" /\ l[Len(l)] /= "$")

\* A call that renders a latex representation
RendersLatex ==
    \/ Done("render_display_format_latex")
    \/ Done("render_pyout") /\ "latex" \in DOMAIN call.arg

\* C7, as stated: "$$" + m + "$$" is rendered as the equation environment
\* around m, for every m; a latex string without "$$" at either end is
\* wrapped unchanged.
C7_StripsOneDelimiterPair ==
    RendersLatex =>
        LET l == call.arg.latex
        IN  /\ ret.kind = "return"
            /\ HasDelimiters(l) => ret.val[2] = Str(Inner(l))
            /\ (~HasDelimiters(l) /\ (Len(l) < 2 \/ l[1] /= "$" \/ l[2] /= "$")
                /\ (Len(l) < 2 \/ l[Len(l) - 1] /= "$" \/ l[Len(l)] /= "$"))
                   => ret.val[2] = Str(l)

\* C7, amended: every leading and every trailing "$" is dropped, and what is
\* left is wrapped in the equation environment; so "$$" + m + "$$" gives m
\* when m neither begins nor ends with "$", and a latex string that neither
\* begins nor ends with "$" is wrapped unchanged.
C7_StripsEveryDollar ==
    RendersLatex =>
        LET l == call.arg.latex
        IN  /\ ret.kind = "return"
            /\ Len(ret.val) = 3
            /\ ret.val[1] = "\\begin{equation*}"
            /\ ret.val[3] = "\\end{equation*}"
            /\ \E i, j \in 0..Len(l) :
                /\ i + j <= Len(l)
                /\ \A k \in 1..i : l[k] = "$"
                /\ \A k \in (Len(l) - j + 1)..Len(l) : l[k] = "$"
                /\ Bare(SubSeq(l, i + 1, Len(l) - j))
                /\ ret.val[2] = Str(SubSeq(l, i + 1, Len(l) - j))
            /\ (HasDelimiters(l) /\ Bare(Inner(l))) => ret.val[2] = Str(Inner(l))
            /\ Bare(l) => ret.val[2] = Str(l)

\* "$$x$y$$" rendered as the equation x$y.
C7_Witness ==
    /\ Done("render_display_format_latex")
    /\ call.arg.latex = <<"$", "$", "x", "$", "y", "$", "$">>
    /\ ret = Return(<<"\\begin{equation*}", "x$y", "\\end{equation*}">>)

\* The user preamble is configured and cannot be read, or the fixed one cannot.
PreambleUnreadable ==
    \/ preamble \notin call.env.readable
    \/ user_preamble.t = "str" /\ user_preamble.v \notin call.env.readable

\* C8: convert() with the preamble on raises, and returns no string, when
\* the configured user preamble cannot be read, and when the fixed preamble
\* cannot be read.
C8_UnreadablePreambleRaises ==
    (Done("convert") /\ with_preamble /\ PreambleUnreadable) => ret.kind = "raise"

\* The fixed preamble was read, the user preamble could not be.
C8_Witness ==
    /\ Done("convert")
    /\ with_preamble
    /\ user_preamble = PyStr(UserPreamblePath)
    /\ call.env.readable = {preamble}
    /\ opened = <<preamble, UserPreamblePath>>
    /\ ret = Raise("IOError")

\* C9: convert() with the preamble off returns the body as it is and opens
\* no file, so that no unreadable preamble makes it fail.
C9_BodyUnchanged ==
    (Done("convert") /\ ~with_preamble) => (ret = Return(call.arg) /\ opened = <<>>)

\* Preamble off, a user preamble configured, no file readable.
C9_Witness ==
    /\ Done("convert")
    /\ ~with_preamble
    /\ user_preamble = PyStr(UserPreamblePath)
    /\ call.env.readable = {}
    /\ call.arg = "\\begin{document}"
    /\ ret = Return("\\begin{document}")

\* The svg path of the call with its extension replaced by .pdf
PdfSibling == SubSeq(call.arg, 1, Len(call.arg) - 1) \o <<"pdf">>

\* C10: _svg_lines calls the rasterizer once, as
\* <tool> --export-pdf=<pdf path> <svg path>, and never again; it raises and
\* returns no lines when the tool is unset, is not found or exits non-zero,
\* and only after exit code 0 returns the image rendering of the pdf path.
C10_RasterizerOnce ==
    Done("_svg_lines") =>
        /\ Len(spawned) = 1
        /\ spawned[1].argv = <<inkscape, PyStr("--export-pdf=" \o Str(PdfSibling)),
                               PyStr(Str(call.arg))>>
        /\ ret.kind = "return"
            <=> (inkscape.t = "str" /\ call.env.found /\ call.env.rc = 0)
        /\ ret.kind = "return" =>
            ret.val = <<"\\begin{center}",
                        "\\includegraphics[width=0.7\\textwidth]{"
                            \o Str(relpath(PdfSibling, infile_dir)) \o "}",
                        "\\par",
                        "\\end{center}">>

\* The rasterizer ran once and exited 1: the call raised.
C10_Witness ==
    /\ Done("_svg_lines")
    /\ inkscape = PyStr("inkscape")
    /\ call.env = [found |-> TRUE, rc |-> 1]
    /\ Len(spawned) = 1
    /\ ret = Raise("CalledProcessError")

====
